---- MODULE Spec2Model ----
(***************************************************************************)
(* Model of the two utility classes of the SCD30 CO2 sensor node:          *)
(*   myns::Logging  (src/src/Logging/Logging.h, Logging.cpp)               *)
(*   DateTime       (src/src/DateTime/DateTime.h, DateTime.cpp)            *)
(*                                                                         *)
(* Spec   : one Logging object and every sequence of calls on it.          *)
(* SpecDT : construction of DateTime objects from timestamp strings and    *)
(*          calls of their accessors.                                      *)
(***************************************************************************)
EXTENDS Integers, Sequences, FiniteSets, TLC

VARIABLES
    logGlobal,        \* Logging::logGlobal, uint16_t
    logLevelConfig,   \* Logging::logLevelConfig[10], uint16_t each
    sink,             \* what Serial.print has written, one element per call
    call,             \* the most recent call on either object: the operation, the
                      \* arguments that select its behaviour, and its result
    lastSet,          \* history: per subsystem, <<lvl>> of the latest SetLogLevel, or <<>>
    offPeriod,        \* history: "never" disabled, "off" with the table as LogGlobalOff
                      \* found it, "changed" by SetLogLevel while off, or "over"
    datetime,         \* the argument of the latest DateTime constructor
    dt                \* the DateTime object: its private members

vars == <<logGlobal, logLevelConfig, sink, call, lastSet, offPeriod, datetime, dt>>

logVars == <<logGlobal, logLevelConfig, sink, lastSet, offPeriod>>

----------------------------------------------------------------------------
(* Bounds of the model *)

\* SetLogLevel, GetLogLevel and Log are called on subsystems 0..MaxSubsys
MaxSubsys == 1

\* thresholds are drawn from 0..MaxLevel, severities from 0..MaxLevel+1
MaxLevel == 1

\* Log is called while fewer than MaxSink messages have been written
MaxSink == 1

----------------------------------------------------------------------------
(* Logging *)

\* uint16_t logLevelConfig[10]
NumSubsys == 10

Subsystems == 0 .. (NumSubsys - 1)

SubsysIds == 0 .. MaxSubsys

Levels == 0 .. MaxLevel

Severities == 0 .. (MaxLevel + 1)

Msgs == {"co2", "wifi"}

Values == {42}

\* What an entry of storage that was never written may hold: the lowest or
\* the highest level.
Garbage == {0, MaxLevel}

\* The constructor leaves logLevelConfig uninitialised: the table holds what
\* the object's storage held.  The entries the calls use are arbitrary and
\* independent; the entries above them, which no call reads, share one
\* arbitrary fill value.
StorageImages ==
    { f \in [Subsystems -> Garbage] :
        \A s \in Subsystems : s > MaxSubsys => f[s] = f[NumSubsys - 1] }

NoOffPeriod == [since |-> "never"]

\* uint16_t Logging::LogGlobalState()
LogGlobalState == logGlobal

\* uint16_t Logging::GetLogLevel(uint16_t subsys)
GetLogLevel(subsys) == logLevelConfig[subsys]

\* What the 3-argument Log hands to Serial.print: the message, or nothing.
LogOutputBelow(subsys, lvl, msg) ==
    IF LogGlobalState # 0
    THEN IF GetLogLevel(subsys) < lvl THEN <<msg>> ELSE <<>>
    ELSE <<>>

LogOutputEqual(subsys, lvl, msg) ==
    IF LogGlobalState # 0
    THEN IF GetLogLevel(subsys) = lvl THEN <<msg>> ELSE <<>>
    ELSE <<>>

LogOutput(subsys, lvl, msg) ==
    IF LogGlobalState # 0
    THEN IF GetLogLevel(subsys) <= lvl THEN <<msg>> ELSE <<>>
    ELSE <<>>

\* Logging::Logging(): Serial.begin, then LogGlobalOn(); nothing else is set.
LoggingCtorOff ==
    /\ logGlobal = 0
    /\ logLevelConfig \in StorageImages
    /\ sink = <<>>
    /\ lastSet = [s \in Subsystems |-> <<>>]
    /\ offPeriod = NoOffPeriod

LoggingCtor ==
    /\ logGlobal = 1
    /\ logLevelConfig \in StorageImages
    /\ sink = <<>>
    /\ lastSet = [s \in Subsystems |-> <<>>]
    /\ offPeriod = NoOffPeriod

\* void Logging::SetLogLevel(int subsys, uint16_t lvl)
SetLogLevelFirst(subsys, lvl) ==
    /\ logLevelConfig' = [logLevelConfig EXCEPT ![0] = lvl]
    /\ lastSet' = [lastSet EXCEPT ![subsys] = <<lvl>>]
    /\ offPeriod' = IF offPeriod.since \in {"off", "changed"}
                    THEN [since |-> "changed"]
                    ELSE offPeriod
    /\ call' = [op |-> "SetLogLevel", subsys |-> subsys, lvl |-> lvl]
    /\ UNCHANGED <<logGlobal, sink, datetime, dt>>

SetLogLevel(subsys, lvl) ==
    /\ logLevelConfig' = [logLevelConfig EXCEPT ![subsys] = lvl]
    /\ lastSet' = [lastSet EXCEPT ![subsys] = <<lvl>>]
    /\ offPeriod' = IF offPeriod.since \in {"off", "changed"}
                    THEN [since |-> "changed"]
                    ELSE offPeriod
    /\ call' = [op |-> "SetLogLevel", subsys |-> subsys, lvl |-> lvl]
    /\ UNCHANGED <<logGlobal, sink, datetime, dt>>

\* the call GetLogLevel(subsys) made by the application
GetLogLevelCall(subsys) ==
    /\ call' = [op |-> "GetLogLevel", subsys |-> subsys, ret |-> GetLogLevel(subsys)]
    /\ UNCHANGED <<logVars, datetime, dt>>

\* void Logging::Log(uint16_t subsys, uint16_t lvl, const char * msg)
Log(subsys, lvl, msg) ==
    /\ Len(sink) < MaxSink
    /\ sink' = sink \o LogOutput(subsys, lvl, msg)
    /\ call' = [op |-> "Log", subsys |-> subsys, lvl |-> lvl, msg |-> msg]
    /\ UNCHANGED <<logGlobal, logLevelConfig, lastSet, offPeriod, datetime, dt>>

\* void Logging::Log(uint16_t subsys, uint16_t lvl, const char * msg, int value)
LogValuePrints(subsys, lvl, msg, value) ==
    /\ Len(sink) < MaxSink
    /\ sink' = sink \o LogOutput(subsys, lvl, msg)
    /\ call' = [op |-> "LogValue", subsys |-> subsys, lvl |-> lvl]
    /\ UNCHANGED <<logGlobal, logLevelConfig, lastSet, offPeriod, datetime, dt>>

LogValue(subsys, lvl, msg, value) ==
    /\ call' = [op |-> "LogValue", subsys |-> subsys, lvl |-> lvl]
    /\ UNCHANGED <<logVars, datetime, dt>>

\* void Logging::LogGlobalOff()
LogGlobalOffNoop ==
    /\ logGlobal' = logGlobal
    /\ offPeriod' = [since |-> "off", table |-> logLevelConfig]
    /\ call' = [op |-> "LogGlobalOff"]
    /\ UNCHANGED <<logLevelConfig, sink, lastSet, datetime, dt>>

LogGlobalOffReset ==
    /\ logGlobal' = 0
    /\ logLevelConfig' = [s \in Subsystems |-> 0]
    /\ offPeriod' = [since |-> "off", table |-> logLevelConfig]
    /\ call' = [op |-> "LogGlobalOff"]
    /\ UNCHANGED <<sink, lastSet, datetime, dt>>

LogGlobalOff ==
    /\ logGlobal' = 0
    /\ offPeriod' = [since |-> "off", table |-> logLevelConfig]
    /\ call' = [op |-> "LogGlobalOff"]
    /\ UNCHANGED <<logLevelConfig, sink, lastSet, datetime, dt>>

\* void Logging::LogGlobalOn()
LogGlobalOn ==
    /\ logGlobal' = 1
    /\ offPeriod' = IF offPeriod.since = "never" THEN offPeriod ELSE [since |-> "over"]
    /\ call' = [op |-> "LogGlobalOn"]
    /\ UNCHANGED <<logLevelConfig, sink, lastSet, datetime, dt>>

\* the call LogGlobalState() made by the application
LogGlobalStateCall ==
    /\ call' = [op |-> "LogGlobalState", ret |-> LogGlobalState]
    /\ UNCHANGED <<logVars, datetime, dt>>

----------------------------------------------------------------------------
(* DateTime *)

Digits == {"0", "1", "2", "3", "4", "5", "6", "7", "8", "9"}

DigitValue ==
    [c \in Digits |->
        CASE c = "0" -> 0 [] c = "1" -> 1 [] c = "2" -> 2 [] c = "3" -> 3
          [] c = "4" -> 4 [] c = "5" -> 5 [] c = "6" -> 6 [] c = "7" -> 7
          [] c = "8" -> 8 [] c = "9" -> 9]

Whitespace == {" "}

Min(a, b) == IF a < b THEN a ELSE b

\* strncpy(dest, &src[off], n) followed by dest[n] = '\0': the string left in
\* dest.  A C string is the sequence of its characters before the terminator;
\* strncpy stops at the terminator of src.
Strncpy(src, off, n) == SubSeq(src, off + 1, Min(off + n, Len(src)))

RECURSIVE SkipSpace(_)
SkipSpace(str) ==
    IF str # <<>> /\ Head(str) \in Whitespace THEN SkipSpace(Tail(str)) ELSE str

RECURSIVE AtoiDigits(_, _)
AtoiDigits(str, acc) ==
    IF str = <<>> \/ Head(str) \notin Digits
    THEN acc
    ELSE AtoiDigits(Tail(str), acc * 10 + DigitValue[Head(str)])

\* int atoi(const char*): leading white space, an optional sign, then the
\* decimal digits up to the first character that is not one.
Atoi(str) ==
    LET t == SkipSpace(str)
        signed == t # <<>> /\ Head(t) \in {"+", "-"}
        n == AtoiDigits(IF signed THEN Tail(t) ELSE t, 0)
    IN  IF signed /\ Head(t) = "-" THEN 0 - n ELSE n

\* conversion of an int to uint16_t and to uint8_t
ToUint16AsByte(n) == n % 256

ToUint16(n) == n % 65536

ToUint8(n) == n % 256

\* the constructor reads datetime[0] .. datetime[18]
MinLen == 17 + 2

\* DateTime::DateTime(const char* datetime): the members it leaves
DateTimeCtorSeconds(str) ==
    LET dateonly_ == Strncpy(str, 0, 10)
        y == Strncpy(dateonly_, 0, 4)
        M == Strncpy(dateonly_, 5, 2)
        d == Strncpy(dateonly_, 8, 2)
        timeonly_ == Strncpy(str, 11, 8)
        h == Strncpy(str, 11, 2)
        m == Strncpy(str, 14, 2)
        s == Strncpy(str, 17, 2)
    IN  [constructed |-> TRUE,
         dateonly |-> dateonly_,
         timeonly |-> timeonly_,
         year |-> ToUint16(Atoi(y)),
         month |-> ToUint8(Atoi(M)),
         day |-> ToUint8(Atoi(d)),
         hour |-> ToUint8(Atoi(h)),
         minute |-> ToUint8(Atoi(m)),
         second |-> ToUint8(Atoi(s))]

DateTimeCtor(str) ==
    LET dateonly_ == Strncpy(str, 0, 10)
        y == Strncpy(dateonly_, 0, 4)
        M == Strncpy(dateonly_, 5, 2)
        d == Strncpy(dateonly_, 8, 2)
        timeonly_ == Strncpy(str, 11, 5)
        h == Strncpy(str, 11, 2)
        m == Strncpy(str, 14, 2)
        s == Strncpy(str, 17, 2)
    IN  [constructed |-> TRUE,
         dateonly |-> dateonly_,
         timeonly |-> timeonly_,
         year |-> ToUint16(Atoi(y)),
         month |-> ToUint8(Atoi(M)),
         day |-> ToUint8(Atoi(d)),
         hour |-> ToUint8(Atoi(h)),
         minute |-> ToUint8(Atoi(m)),
         second |-> ToUint8(Atoi(s))]

NoDateTime == [constructed |-> FALSE]

\* Accessors
dateonly == dt.dateonly

timeonly == dt.timeonly

year == dt.year

month == dt.month

day == dt.day

hour == dt.hour

minute == dt.minute

second == dt.second

\* DateTime object(datetime): one object at a time, created per timestamp
NewDateTime(str) ==
    /\ ~dt.constructed
    /\ Len(str) >= MinLen
    /\ datetime' = str
    /\ dt' = DateTimeCtor(str)
    /\ call' = [op |-> "DateTime"]
    /\ UNCHANGED logVars

\* DateTime::~DateTime(): the object goes out of scope
DeleteDateTime ==
    /\ dt.constructed
    /\ dt' = NoDateTime
    /\ datetime' = <<>>
    /\ call' = [op |-> "~DateTime"]
    /\ UNCHANGED logVars

AccessorCall(name, value) ==
    /\ dt.constructed
    /\ call' = [op |-> name, ret |-> value]
    /\ UNCHANGED <<logVars, datetime, dt>>

dateonlyCall == AccessorCall("dateonly", dateonly)

timeonlyCall == AccessorCall("timeonly", timeonly)

yearCall == AccessorCall("year", year)

monthCall == AccessorCall("month", month)

dayCall == AccessorCall("day", day)

hourCall == AccessorCall("hour", hour)

minuteCall == AccessorCall("minute", minute)

secondCall == AccessorCall("second", second)

\* The timestamps handed to the constructor: six groups, the separators of
\* the layout, and what follows the seconds.
Years == {<<"2", "0", "1", "9">>, <<"2", "0", "0", "5">>,
          <<"9", "9", "9", "9">>, <<"0", "0", "0", "0">>}

Months == {<<"0", "6">>, <<"1", "3">>}

Days == {<<"0", "8">>, <<"3", "2">>}

Hours == {<<"1", "3">>, <<"0", "3">>}

Minutes == {<<"5", "2">>, <<"0", "4">>, <<"5", "x">>}

Seconds == {<<"5", "3">>, <<"0", "5">>, <<"9", "9">>, <<" ", "7">>, <<"-", "5">>}

Tails == {<<>>, <<"+", "0", "2", "0", "0">>}

Timestamps ==
    { yy \o <<"-">> \o mo \o <<"-">> \o dd \o <<"T">> \o hh \o <<":">> \o mi
         \o <<":">> \o ss \o tl :
        yy \in Years, mo \in Months, dd \in Days, hh \in Hours, mi \in Minutes,
        ss \in Seconds, tl \in Tails }

----------------------------------------------------------------------------
(* Specifications *)

NoCall == [op |-> "none"]

Init ==
    /\ LoggingCtor
    /\ call = NoCall
    /\ datetime = <<>>
    /\ dt = NoDateTime

Next ==
    \/ \E s \in SubsysIds, l \in Levels : SetLogLevel(s, l)
    \/ \E s \in SubsysIds : GetLogLevelCall(s)
    \/ \E s \in SubsysIds, l \in Severities, m \in Msgs : Log(s, l, m)
    \/ \E s \in SubsysIds, l \in Severities, m \in Msgs, v \in Values : LogValue(s, l, m, v)
    \/ LogGlobalOff
    \/ LogGlobalOn
    \/ LogGlobalStateCall

Spec == Init /\ [][Next]_vars

NextDT ==
    \/ \E str \in Timestamps : NewDateTime(str)
    \/ DeleteDateTime
    \/ dateonlyCall
    \/ timeonlyCall
    \/ yearCall
    \/ monthCall
    \/ dayCall
    \/ hourCall
    \/ minuteCall
    \/ secondCall

\* The program of SpecDT keeps its Logging object in static storage, which is
\* zeroed before the constructor runs, and only works with DateTime objects.
InitDT ==
    /\ Init
    /\ logLevelConfig = [s \in Subsystems |-> 0]

SpecDT == InitDT /\ [][NextDT]_vars

----------------------------------------------------------------------------
(* Properties of Logging, checked under Spec *)

InOffPeriod == offPeriod.since \in {"off", "changed"}

C2_OffSuppressesOnRestores ==
    [][/\ (InOffPeriod /\ call'.op = "Log") => sink' = sink
       /\ (offPeriod.since = "off" /\ call'.op = "LogGlobalOn")
             => logLevelConfig' = offPeriod.table
       /\ (offPeriod.since = "over" /\ call'.op = "Log")
             => (sink' = Append(sink, call'.msg)
                   <=> logLevelConfig[call'.subsys] <= call'.lvl)
       /\ (offPeriod.since = "over" /\ call'.op = "Log")
             => sink' \in {sink, Append(sink, call'.msg)}]_vars

\* after a disable and a re-enable, a message has been written
C2_Witness ==
    /\ offPeriod.since = "over"
    /\ call.op = "Log"
    /\ Len(sink) = 1
    /\ sink[1] = call.msg
    /\ \E s \in Subsystems : logLevelConfig[s] > call.lvl

\* C3: for every subsystem on which SetLogLevel has been called, GetLogLevel
\* returns the level of the most recent SetLogLevel on that subsystem, whatever
\* other calls came in between.
C3_GetReturnsLastSet ==
    /\ \A s \in Subsystems : lastSet[s] # <<>> => GetLogLevel(s) = lastSet[s][1]
    /\ (call.op = "GetLogLevel" /\ lastSet[call.subsys] # <<>>)
          => call.ret = lastSet[call.subsys][1]

\* GetLogLevel has returned the level set, with another subsystem set to a
\* different level
C3_Witness ==
    /\ call.op = "GetLogLevel"
    /\ lastSet[call.subsys] = <<call.ret>>
    /\ \E t \in Subsystems : lastSet[t] # <<>> /\ lastSet[t] # lastSet[call.subsys]

\* C4: for a subsystem on which SetLogLevel has never been called,
\* GetLogLevel returns 0.
C4_UnsetReturnsZero ==
    (call.op = "GetLogLevel" /\ lastSet[call.subsys] = <<>>) => call.ret = 0

C7_OnUntilFirstOff ==
    offPeriod.since = "never" =>
        /\ LogGlobalState # 0
        /\ call.op = "LogGlobalState" => call.ret # 0

\* LogGlobalState() has returned 1 with LogGlobalOff() never called
C7_Witness ==
    /\ offPeriod.since = "never"
    /\ call.op = "LogGlobalState"
    /\ call.ret = 1

C9_Frame ==
    [][/\ call'.op \in {"Log", "LogValue", "GetLogLevel", "LogGlobalState"}
            => (logGlobal' = logGlobal /\ logLevelConfig' = logLevelConfig)
       /\ call'.op \in {"LogGlobalOn", "LogGlobalOff"}
            => logLevelConfig' = logLevelConfig
       /\ call'.op = "SetLogLevel"
            => /\ logGlobal' = logGlobal
               /\ \A t \in Subsystems \ {call'.subsys} :
                     logLevelConfig'[t] = logLevelConfig[t]
       /\ logGlobal' # logGlobal
            => call'.op \in {"LogGlobalOn", "LogGlobalOff"}]_vars

\* the switch has been turned off with thresholds other than 0 in the table
C9_Witness ==
    /\ call.op = "LogGlobalOff"
    /\ logGlobal = 0
    /\ \E s \in Subsystems : lastSet[s] # <<>> /\ logLevelConfig[s] > 0

----------------------------------------------------------------------------
(* Properties of DateTime, checked under SpecDT *)

DigitPositions == {1, 2, 3, 4, 6, 7, 9, 10, 12, 13, 15, 16, 18, 19}

\* str is laid out as YYYY-MM-DDTHH:MM:SS, whatever follows
LayoutOK(str) ==
    /\ Len(str) >= 19
    /\ \A i \in DigitPositions : str[i] \in Digits
    /\ str[5] = "-" /\ str[8] = "-" /\ str[11] = "T"
    /\ str[14] = ":" /\ str[17] = ":"

Dec2(str, i) == 10 * DigitValue[str[i]] + DigitValue[str[i + 1]]

Dec4(str, i) == 100 * Dec2(str, i) + Dec2(str, i + 2)

\* C5: for an input laid out as YYYY-MM-DDTHH:MM:SS, dateonly() is its first
\* 10 characters, timeonly() the 5 characters HH:MM, and the six numbers are
\* the decimal values of their digit groups.
C5_FieldsOfLayout ==
    (dt.constructed /\ LayoutOK(datetime)) =>
        /\ dateonly = SubSeq(datetime, 1, 10)
        /\ timeonly = SubSeq(datetime, 12, 16)
        /\ year = Dec4(datetime, 1)
        /\ month = Dec2(datetime, 6)
        /\ day = Dec2(datetime, 9)
        /\ hour = Dec2(datetime, 12)
        /\ minute = Dec2(datetime, 15)
        /\ second = Dec2(datetime, 18)

\* "2005-06-08T03:04:05+0200" has been split, leading zeros and tail included
C5_Witness ==
    /\ dt.constructed
    /\ LayoutOK(datetime)
    /\ Len(datetime) > 19
    /\ year = 2005 /\ month = 6 /\ day = 8
    /\ hour = 3 /\ minute = 4 /\ second = 5
    /\ timeonly = <<"0", "3", ":", "0", "4">>

\* C10: for an input with digits in all digit positions, year is in 0..9999
\* and the other numbers in 0..99, each the value atoi parsed and not that
\* value reduced by the width of its member.
C10_NoWrapAround ==
    (dt.constructed /\ \A i \in DigitPositions : datetime[i] \in Digits) =>
        /\ year \in 0 .. 9999 /\ year = Atoi(SubSeq(datetime, 1, 4))
        /\ month \in 0 .. 99 /\ month = Atoi(SubSeq(datetime, 6, 7))
        /\ day \in 0 .. 99 /\ day = Atoi(SubSeq(datetime, 9, 10))
        /\ hour \in 0 .. 99 /\ hour = Atoi(SubSeq(datetime, 12, 13))
        /\ minute \in 0 .. 99 /\ minute = Atoi(SubSeq(datetime, 15, 16))
        /\ second \in 0 .. 99 /\ second = Atoi(SubSeq(datetime, 18, 19))

\* year 9999, month 13, day 32 and second 99 are stored as parsed
C10_Witness ==
    /\ dt.constructed
    /\ year = 9999 /\ month = 13 /\ day = 32 /\ second = 99

====
